---------------------------- MODULE Spec2Model ----------------------------
(***************************************************************************)
(* The test-execution orchestrator of the Code Challenge Platform.         *)
(*                                                                         *)
(* The repository holds two versions of the App component:                 *)
(*   src/client/src/App.tsx  state `results`,     helper parseResult, each *)
(*                           publish rebuilds the whole snapshot from the  *)
(*                           local list newResults;                        *)
(*   src/unnamed/part_000    state `testResults`, classification inline,   *)
(*                           each publish is a functional update that      *)
(*                           overwrites index i of the previous state.     *)
(* Both have the same hooks (problem index, language, code, isRunning),    *)
(* the same handlers and the same control flow in runCode; they differ in  *)
(* the classification code, in the catch block and in how a snapshot is    *)
(* published.  The model drives both with the same user events and the     *)
(* same judge outcomes: the hooks and the control state are modelled once, *)
(* the result collections and the local result lists once per version.     *)
(*                                                                         *)
(* A JavaScript string is a sequence of one-character strings.  An         *)
(* optional value (absent, undefined or null) is the empty set, a present  *)
(* value v is {v}.                                                         *)
(***************************************************************************)
EXTENDS Integers, Sequences, FiniteSets, TLC

\* ------------------------------------------------------------------ bounds
\* The largest number of test cases of a suite of the catalogue.
MaxCases == 2
\* The longest stdout and expectedOutput the classifier is applied to.
MaxStrLen == 3

\* ----------------------------------------------------------- JS values
None == {}
Some(v) == {v}
Get(o) == CHOOSE v \in o : TRUE

\* JavaScript truthiness of an optional string: absent and "" are falsy.
Truthy(o) == o # None /\ Get(o) # <<>>

\* The characters String.prototype.trim removes (those of the alphabet used).
Whitespace == {" ", "\n"}

RECURSIVE trimStart(_)
trimStart(s) ==
  IF s # <<>> /\ Head(s) \in Whitespace THEN trimStart(Tail(s)) ELSE s

RECURSIVE trimEnd(_)
trimEnd(s) ==
  IF s # <<>> /\ s[Len(s)] \in Whitespace
  THEN trimEnd(SubSeq(s, 1, Len(s) - 1))
  ELSE s

\* String.prototype.trim: leading and trailing whitespace removed.
trim(s) == trimEnd(trimStart(s))

\* The decimal text of a test number, as a template literal interpolates it.
Digits == <<"1", "2", "3", "4", "5", "6", "7", "8", "9">>
NumText(n) == IF n \in 1..Len(Digits) THEN Digits[n] ELSE "n"

\* `Test Case ${n} <what>`
Message(n, what) == <<"Test Case ", NumText(n), what>>

NoOutput == <<"N", "o", " ", "o", "u", "t", "p", "u", "t">>
UnknownError == <<"Unknown error">>
\* The message of the TypeError thrown by reading .stdout of a null body.
NullBodyError == <<"Cannot read properties of null (reading 'stdout')">>

\* An array slot that holds no TestResult (a hole, or undefined).
undefined == [undefined |-> TRUE]

\* ---------------------------------------------------------- TestResult
\* interface TestResult: the optional fields are options.
TestResult(n, st, msg, inp, ex, act, tm, mem, err) ==
  [testNumber |-> n, status |-> st, message |-> msg, input |-> inp,
   expected |-> ex, actual |-> act, time |-> tm, memory |-> mem, error |-> err]

\* { testNumber, status: 'running', message }
RunningResult(n, msg) ==
  TestResult(n, "running", msg, None, None, None, None, None, None)

\* { testNumber, status: 'failed', message, error }
ErrorResult(n, what, err) ==
  TestResult(n, "failed", Message(n, what), None, None, None, None, None, err)

\* ---------------------------------------------------------- classifier
\* parseResult with the stderr test moved before the stdout test.
parseResult_stderrFirst(result, testCase, index) ==
  LET testNumber == index + 1 IN
  IF Truthy(result.stderr)
  THEN ErrorResult(testNumber, " Failed - Runtime Error", result.stderr)
  ELSE IF Truthy(result.stdout) /\ trim(Get(result.stdout)) = testCase.expectedOutput
  THEN TestResult(testNumber, "passed", Message(testNumber, " Passed"),
                  Some(testCase.input), Some(testCase.expectedOutput),
                  Some(trim(Get(result.stdout))), result.time, result.memory, None)
  ELSE IF Truthy(result.compile_output)
  THEN ErrorResult(testNumber, " Failed - Compilation Error", result.compile_output)
  ELSE TestResult(testNumber, "failed", Message(testNumber, " Failed - Wrong Answer"),
                  Some(testCase.input), Some(testCase.expectedOutput),
                  IF Truthy(result.stdout) THEN Some(trim(Get(result.stdout)))
                                           ELSE Some(NoOutput),
                  None, None, None)

\* parseResult with actual taken from stdout as it came, untrimmed.
parseResult_rawActual(result, testCase, index) ==
  LET testNumber == index + 1 IN
  IF Truthy(result.stdout) /\ trim(Get(result.stdout)) = testCase.expectedOutput
  THEN TestResult(testNumber, "passed", Message(testNumber, " Passed"),
                  Some(testCase.input), Some(testCase.expectedOutput),
                  result.stdout, result.time, result.memory, None)
  ELSE IF Truthy(result.stderr)
  THEN ErrorResult(testNumber, " Failed - Runtime Error", result.stderr)
  ELSE IF Truthy(result.compile_output)
  THEN ErrorResult(testNumber, " Failed - Compilation Error", result.compile_output)
  ELSE TestResult(testNumber, "failed", Message(testNumber, " Failed - Wrong Answer"),
                  Some(testCase.input), Some(testCase.expectedOutput),
                  IF Truthy(result.stdout) THEN result.stdout ELSE Some(NoOutput),
                  None, None, None)

\* App.tsx parseResult(result, testCase, index); index is 0-based.
parseResult(result, testCase, index) ==
  LET testNumber == index + 1 IN
  IF Truthy(result.stdout) /\ trim(Get(result.stdout)) = testCase.expectedOutput
  THEN TestResult(testNumber, "passed", Message(testNumber, " Passed"),
                  Some(testCase.input), Some(testCase.expectedOutput),
                  Some(trim(Get(result.stdout))), result.time, result.memory, None)
  ELSE IF Truthy(result.stderr)
  THEN ErrorResult(testNumber, " Failed - Runtime Error", result.stderr)
  ELSE IF Truthy(result.compile_output)
  THEN ErrorResult(testNumber, " Failed - Compilation Error", result.compile_output)
  ELSE TestResult(testNumber, "failed", Message(testNumber, " Failed - Wrong Answer"),
                  Some(testCase.input), Some(testCase.expectedOutput),
                  IF Truthy(result.stdout) THEN Some(trim(Get(result.stdout)))
                                           ELSE Some(NoOutput),
                  None, None, None)

\* The inline classification with expectedOutput trimmed as well.
classifyInline_trimsExpected(result, testCase, i) ==
  IF Truthy(result.stdout) /\ trim(Get(result.stdout)) = trim(testCase.expectedOutput)
  THEN TestResult(i + 1, "passed", Message(i + 1, " Passed"),
                  Some(testCase.input), Some(testCase.expectedOutput),
                  Some(trim(Get(result.stdout))), result.time, result.memory, None)
  ELSE IF Truthy(result.stderr)
  THEN ErrorResult(i + 1, " Failed - Runtime Error", result.stderr)
  ELSE IF Truthy(result.compile_output)
  THEN ErrorResult(i + 1, " Failed - Compilation Error", result.compile_output)
  ELSE TestResult(i + 1, "failed", Message(i + 1, " Failed - Wrong Answer"),
                  Some(testCase.input), Some(testCase.expectedOutput),
                  IF Truthy(result.stdout) THEN Some(trim(Get(result.stdout)))
                                           ELSE Some(NoOutput),
                  None, None, None)

\* part_000 runCode, the if / else-if chain that builds testResult; i is 0-based.
classifyInline(result, testCase, i) ==
  IF Truthy(result.stdout) /\ trim(Get(result.stdout)) = testCase.expectedOutput
  THEN TestResult(i + 1, "passed", Message(i + 1, " Passed"),
                  Some(testCase.input), Some(testCase.expectedOutput),
                  Some(trim(Get(result.stdout))), result.time, result.memory, None)
  ELSE IF Truthy(result.stderr)
  THEN ErrorResult(i + 1, " Failed - Runtime Error", result.stderr)
  ELSE IF Truthy(result.compile_output)
  THEN ErrorResult(i + 1, " Failed - Compilation Error", result.compile_output)
  ELSE TestResult(i + 1, "failed", Message(i + 1, " Failed - Wrong Answer"),
                  Some(testCase.input), Some(testCase.expectedOutput),
                  IF Truthy(result.stdout) THEN Some(trim(Get(result.stdout)))
                                           ELSE Some(NoOutput),
                  None, None, None)

\* ------------------------------------------------------------ catalogue
\* type Language
Languages == {"python", "javascript", "cpp"}

LANGUAGE_IDS == [python |-> 71, javascript |-> 63, cpp |-> 54]

\* The k-th test case of a fixture: { input, expectedOutput }.
TestCase(k) ==
  [input |-> <<NumText(k)>>,
   expectedOutput |-> IF k % 2 = 1 THEN <<"4", "2">> ELSE <<"4", " ", "2">>]

\* A fixture's suite for one language: { testCode, testCases }.
TestSuite(harness, n) ==
  [testCode |-> <<harness>>, testCases |-> [k \in 1..n |-> TestCase(k)]]

\* ./testcases/sumOfTwoNumbers: no suite for cpp.
sumOfTwoNumbersTests ==
  [python |-> TestSuite("sum.py", MaxCases), javascript |-> TestSuite("sum.js", 1)]

\* ./testcases/multiplyNumbers: no suite for python, an empty one for
\* javascript, two test cases for cpp.
multiplyNumbersTests ==
  [javascript |-> TestSuite("mul.js", 0), cpp |-> TestSuite("mul.cpp", 2)]

TEST_CASE_MAP ==
  [sumOfTwoNumbers |-> sumOfTwoNumbersTests, multiplyNumbers |-> multiplyNumbersTests]

\* ./problems: the fields the component reads.
problems ==
  << [testCaseFile |-> "sumOfTwoNumbers",
      starterCode |-> [python |-> <<"sum0.py">>, javascript |-> <<"sum0.js">>,
                       cpp |-> <<"sum0.cpp">>]],
     [testCaseFile |-> "multiplyNumbers",
      starterCode |-> [python |-> <<"mul0.py">>, javascript |-> <<"mul0.js">>,
                       cpp |-> <<"mul0.cpp">>]] >>

\* TEST_CASE_MAP[problem.testCaseFile]?.[language], an option.
testSuiteOf(idx, lang) ==
  LET file == problems[idx + 1].testCaseFile IN
  IF file \in DOMAIN TEST_CASE_MAP /\ lang \in DOMAIN TEST_CASE_MAP[file]
  THEN Some(TEST_CASE_MAP[file][lang])
  ELSE None

\* ------------------------------------------------------- judge outcomes
\* interface Judge0Response
Judge0Response(out, err, comp, tm, mem) ==
  [stdout |-> out, stderr |-> err, compile_output |-> comp, time |-> tm, memory |-> mem]

\* What one axios.post settles with: a rejection carrying an optional message,
\* or a resolution carrying response.data, which is absent (null) or a body.
Rejected(msg) == [rejected |-> TRUE, message |-> msg, data |-> None]
Resolved(data) == [rejected |-> FALSE, message |-> None, data |-> data]

\* The stdouts a run is driven with for a test case: none, one that matches
\* after trimming, one that does not.
RunStdouts(tc) ==
  {None, Some(<<" ">> \o tc.expectedOutput \o <<"\n">>), Some(tc.expectedOutput \o <<"2">>)}

\* The response bodies a run is driven with for a test case: one per
\* stdout without stderr, one with stderr only, one with compile_output only
\* (the specification Classifier takes every combination of the three).
RunBodies(tc) ==
  {Judge0Response(out, None, None, Some(<<"0.01">>), Some(1024)) : out \in RunStdouts(tc)}
  \cup {Judge0Response(None, Some(<<"E">>), None, Some(<<"0.01">>), Some(1024)),
        Judge0Response(None, None, Some(<<"C">>), None, None)}

RunOutcomes(tc) ==
  {Rejected(Some(<<"Network Error">>)), Resolved(None)}
  \cup {Resolved(Some(b)) : b \in RunBodies(tc)}

\* The try block of iteration i throws: the post rejected, or reading
\* result.stdout of an absent body raised a TypeError.
Throws(outcome) == outcome.rejected \/ outcome.data = None

\* The message of what the catch block catches.
CaughtMessage(outcome) ==
  IF outcome.rejected THEN outcome.message ELSE Some(NullBodyError)

\* ------------------------------------------------------------ the state
VARIABLES
  problemIdx,   \* useState(0): problemIdx / currentProblemIndex
  language,     \* useState('python')
  code,         \* useState(problems[0].starterCode.python)
  results,      \* App.tsx: useState<TestResult[]>([])
  testResults,  \* part_000: useState<TestResult[]>([])
  isRunning,    \* useState(false)
  runs,         \* the invocations of runCode: what each closure holds
  lastEvent,    \* the handler that ran last
  cls           \* the classifier applied to one input (specification Classifier)

vars == <<problemIdx, language, code, results, testResults, isRunning, runs,
          lastEvent, cls>>

\* The request body of axios.post.
Request(lang, fullCode, testCase) ==
  [language_id |-> LANGUAGE_IDS[lang], source_code |-> fullCode, stdin |-> testCase.input]

\* ------------------------------------------------------- runCode, parts
\* The iteration with an absent body defaulted to an empty response
\* (data || {}) instead of being left to throw.
App_iterate_defaultsBody(outcome, testCase, i) ==
  IF outcome.rejected
  THEN ErrorResult(i + 1, " Failed - API Error", CaughtMessage(outcome))
  ELSE parseResult(IF outcome.data = None
                   THEN Judge0Response(None, None, None, None, None)
                   ELSE Get(outcome.data), testCase, i)

\* The submission built from the language selected now instead of the one
\* the invocation closed over.
submit_currentLanguage(r, k) == Request(language, r.fullCode, r.cases[k])

\* Both: the body posted for test case k of invocation r, built from the
\* language, fullCode and cases the invocation closed over.
submit(r, k) == Request(r.language, r.fullCode, r.cases[k])

\* App.tsx: the body of one loop iteration up to the publish.
App_iterate(outcome, testCase, i) ==
  IF Throws(outcome)
  THEN ErrorResult(i + 1, " Failed - API Error", CaughtMessage(outcome))
  ELSE parseResult(Get(outcome.data), testCase, i)

\* part_000: the body of one loop iteration up to the publish.
Part_iterate(outcome, testCase, i) ==
  IF Throws(outcome)
  THEN ErrorResult(i + 1, " Failed - API Error",
                   IF Truthy(CaughtMessage(outcome)) THEN CaughtMessage(outcome)
                                                     ELSE Some(UnknownError))
  ELSE classifyInline(Get(outcome.data), testCase, i)

\* Both: cases.map((_, i) => ({ testNumber: i + 1, status: 'running', ... })).
InitialResults(cases) ==
  [k \in 1..Len(cases) |-> RunningResult(k, <<"Running...">>)]

\* The snapshot with the placeholders taken from cases.slice(i) instead of
\* cases.slice(i + 1).
App_snapshot_sliceI(newResults, cases, i) ==
  newResults \o
  [k \in 1..(IF Len(cases) > i THEN Len(cases) - i ELSE 0) |->
     RunningResult(i + (k - 1) + 2, <<"Waiting...">>)]

\* App.tsx: [...newResults, ...cases.slice(i + 1).map((_, idx) => ({testNumber:
\* i + idx + 2, status: 'running', message: 'Waiting...'}))]; i, idx 0-based.
App_snapshot(newResults, cases, i) ==
  newResults \o
  [k \in 1..(IF Len(cases) > i + 1 THEN Len(cases) - (i + 1) ELSE 0) |->
     RunningResult(i + (k - 1) + 2, <<"Waiting...">>)]

\* The functional update pushing r instead of assigning index i.
Part_update_push(prev, i, r) == Append(prev, r)

\* part_000: (prev) => { const newResults = [...prev]; newResults[i] = r;
\* return newResults; } with i 0-based: slots past the end of prev and before
\* i are holes.
Part_update(prev, i, r) ==
  [k \in 1..(IF Len(prev) > i + 1 THEN Len(prev) ELSE i + 1) |->
     IF k = i + 1 THEN r ELSE IF k <= Len(prev) THEN prev[k] ELSE undefined]

\* A Run button that is never disabled.
RunButtonDisabled_never == FALSE

\* <button onClick={runCode} disabled={isRunning}>
RunButtonDisabled == isRunning

\* The invocations of runCode still suspended on a submission.
Awaiting(rs) == SelectSeq(rs, LAMBDA r : r.pc = "awaiting")

\* The invocations as a problem or language change leaves them: a change
\* made while an invocation is suspended is noted in it (changed).
Interrupted(rs) ==
  [j \in 1..Len(rs) |-> [rs[j] EXCEPT !.changed = @ \/ rs[j].pc = "awaiting"]]

NoCls == [applied |-> FALSE]

\* ------------------------------------------------------------- actions
Init ==
  /\ problemIdx = 0
  /\ language = "python"
  /\ code = problems[1].starterCode.python
  /\ results = <<>>
  /\ testResults = <<>>
  /\ isRunning = FALSE
  /\ runs = <<>>
  /\ lastEvent = "mount"
  /\ cls = NoCls

\* updateLanguage without the reset of the results.
updateLanguage_keepsResults(lang) ==
  /\ lang # language
  /\ language' = lang
  /\ code' = problems[problemIdx + 1].starterCode[lang]
  /\ runs' = Interrupted(runs)
  /\ lastEvent' = "language"
  /\ UNCHANGED <<problemIdx, results, testResults, isRunning, cls>>

\* updateProblem(idx) / handleProblemChange(index): the select's onChange,
\* which fires when another option is chosen.
updateProblem(idx) ==
  /\ idx # problemIdx
  /\ problemIdx' = idx
  /\ code' = problems[idx + 1].starterCode[language]
  /\ results' = <<>>
  /\ testResults' = <<>>
  /\ runs' = Interrupted(runs)
  /\ lastEvent' = "problem"
  /\ UNCHANGED <<language, isRunning, cls>>

\* updateLanguage(lang) / handleLanguageChange(newLang)
updateLanguage(lang) ==
  /\ lang # language
  /\ language' = lang
  /\ code' = problems[problemIdx + 1].starterCode[lang]
  /\ results' = <<>>
  /\ testResults' = <<>>
  /\ runs' = Interrupted(runs)
  /\ lastEvent' = "language"
  /\ UNCHANGED <<problemIdx, isRunning, cls>>

\* The editor's onChange: setCode(val || '').
editCode(val) ==
  /\ code' = IF Truthy(val) THEN Get(val) ELSE <<>>
  /\ code' # code
  /\ lastEvent' = "edit"
  /\ UNCHANGED <<problemIdx, language, results, testResults, isRunning, runs, cls>>

\* runCode testing for the suite only after setIsRunning(true).
runCode_reject_afterSetRunning ==
  /\ isRunning' = TRUE
  /\ lastEvent' = "alert"
  /\ UNCHANGED <<problemIdx, language, code, results, testResults, runs, cls>>

\* runCode with no suite: alert(...) and return.
runCode_reject ==
  /\ lastEvent' = "alert"
  /\ UNCHANGED <<problemIdx, language, code, results, testResults, isRunning, runs, cls>>

\* runCode past the guard without the publish of the initial results.
runCode_start_keepsPrevious(suite) ==
  LET cases == suite.testCases
      fullCode == code \o <<"\n">> \o suite.testCode
      started == Len(cases) > 0
      run == [cases |-> cases, fullCode |-> fullCode, language |-> language,
              i |-> 0, newResults |-> <<>>, partResults |-> <<>>,
              requests |-> IF started
                           THEN <<Request(language, fullCode, cases[1])>>
                           ELSE <<>>,
              outcomes |-> <<>>, changed |-> FALSE,
              pc |-> IF started THEN "awaiting" ELSE "done"]
  IN /\ isRunning' = started
     /\ runs' = Append(Awaiting(runs), run)
     /\ lastEvent' = "run"
     /\ UNCHANGED <<problemIdx, language, code, results, testResults, cls>>

\* runCode with a suite, from setIsRunning(true) to the first await, or to
\* setIsRunning(false) when the suite has no test case.
runCode_start(suite) ==
  LET cases == suite.testCases
      fullCode == code \o <<"\n">> \o suite.testCode
      started == Len(cases) > 0
      run == [cases |-> cases, fullCode |-> fullCode, language |-> language,
              i |-> 0, newResults |-> <<>>, partResults |-> <<>>,
              requests |-> IF started
                           THEN <<Request(language, fullCode, cases[1])>>
                           ELSE <<>>,
              outcomes |-> <<>>, changed |-> FALSE,
              pc |-> IF started THEN "awaiting" ELSE "done"]
  IN /\ isRunning' = started
     /\ results' = InitialResults(cases)
     /\ testResults' = InitialResults(cases)
     /\ runs' = Append(Awaiting(runs), run)
     /\ lastEvent' = "run"
     /\ UNCHANGED <<problemIdx, language, code, cls>>

\* A click on the Run button: runCode from its first statement to the first
\* await, or to its end.
runCode ==
  /\ ~RunButtonDisabled
  /\ LET testSuite == testSuiteOf(problemIdx, language) IN
     IF testSuite = None THEN runCode_reject ELSE runCode_start(Get(testSuite))

\* The submission of invocation j settles with outcome o: runCode from the
\* await of iteration i to the await of iteration i + 1, or to its end.
settle(j, o) ==
  /\ runs[j].pc = "awaiting"
  /\ LET r == runs[j]
         i == r.i
         testCase == r.cases[i + 1]
         appResult == App_iterate(o, testCase, i)
         partResult == Part_iterate(o, testCase, i)
         newResults == Append(r.newResults, appResult)
         more == i + 1 < Len(r.cases)
     IN /\ results' = App_snapshot(newResults, r.cases, i)
        /\ testResults' = Part_update(testResults, i, partResult)
        /\ runs' = [runs EXCEPT ![j] =
             [r EXCEPT !.i = i + 1,
                       !.newResults = newResults,
                       !.partResults = Append(r.partResults, partResult),
                       !.outcomes = Append(r.outcomes, o),
                       !.requests = IF more
                                    THEN Append(r.requests, submit(r, i + 2))
                                    ELSE r.requests,
                       !.pc = IF more THEN "awaiting" ELSE "done"]]
        /\ isRunning' = IF more THEN isRunning ELSE FALSE
        /\ lastEvent' = "settle"
        /\ UNCHANGED <<problemIdx, language, code, cls>>

\* What the user types into the editor.
EditorValues == {None, Some(<<"user">>)}

changeProblem == \E idx \in 0..(Len(problems) - 1) : updateProblem(idx)

changeLanguage == \E lang \in Languages : updateLanguage(lang)

edit == \E val \in EditorValues : editCode(val)

\* The judge answers the submission some invocation waits for.
judge ==
  \E j \in 1..Len(runs) :
    /\ runs[j].pc = "awaiting"
    /\ \E o \in RunOutcomes(runs[j].cases[runs[j].i + 1]) : settle(j, o)

Next == changeProblem \/ changeLanguage \/ edit \/ runCode \/ judge

Spec == Init /\ [][Next]_vars

\* Every submission eventually returns a response or fails.
FairSpec == Spec /\ WF_vars(judge)

\* ------------------------------------------- the classifier on its own
Alphabet == {"4", " ", "\n"}

\* The strings over the alphabet of length at most n.
Strings(n) == UNION {[1..k -> Alphabet] : k \in 0..n}

ClsStdouts == {None} \cup {Some(str) : str \in Strings(MaxStrLen)}
ClsTexts == {None, Some(<<>>), Some(<<"E">>)}
ClsMeters == {<<None, None>>, <<Some(<<"0.01">>), Some(1024)>>}

ClsInit ==
  /\ problemIdx = 0
  /\ language = "python"
  /\ code = problems[1].starterCode.python
  /\ results = <<>>
  /\ testResults = <<>>
  /\ isRunning = FALSE
  /\ runs = <<>>
  /\ lastEvent = "mount"
  /\ \E out \in ClsStdouts, err \in ClsTexts, comp \in ClsTexts, m \in ClsMeters,
        ex \in Strings(MaxStrLen - 1), index \in {0, MaxCases - 1} :
       cls = [applied |-> FALSE,
              result |-> Judge0Response(out, err, comp, m[1], m[2]),
              testCase |-> [input |-> <<"7">>, expectedOutput |-> ex],
              index |-> index,
              app |-> undefined,
              part |-> undefined]

\* Both classifiers applied to the input.
classify ==
  /\ ~cls.applied
  /\ cls' = [cls EXCEPT !.applied = TRUE,
                        !.app = parseResult(cls.result, cls.testCase, cls.index),
                        !.part = classifyInline(cls.result, cls.testCase, cls.index)]
  /\ UNCHANGED <<problemIdx, language, code, results, testResults, isRunning, runs,
                 lastEvent>>

ClsNext == classify

Classifier == ClsInit /\ [][ClsNext]_vars

\* ============================================================== claims
\* The failure subtype a result's message names.
Kind(r) ==
  CASE r = undefined -> "undefined"
    [] r.status = "running" -> "running"
    [] r.status = "passed" -> "passed"
    [] r.message[3] = " Failed - Runtime Error" -> "runtime-error"
    [] r.message[3] = " Failed - Compilation Error" -> "compile-error"
    [] r.message[3] = " Failed - Wrong Answer" -> "wrong-answer"
    [] r.message[3] = " Failed - API Error" -> "api-error"
    [] OTHER -> "other"

IsResolved(r) == r # undefined /\ r.status \in {"passed", "failed"}

\* An optional text that is present and not empty.
NonEmpty(o) == o # None /\ Len(Get(o)) > 0

AllWhitespace(str) == \A k \in 1..Len(str) : str[k] \in Whitespace

\* str is core with whitespace (and nothing else) put before and after it,
\* and core itself neither starts nor ends with whitespace.
IsTrimOf(core, str) ==
  /\ core = <<>> \/ (core[1] \notin Whitespace /\ core[Len(core)] \notin Whitespace)
  /\ \E a \in 0..Len(str) : \E z \in a..Len(str) :
       /\ AllWhitespace(SubSeq(str, 1, a))
       /\ AllWhitespace(SubSeq(str, z + 1, Len(str)))
       /\ SubSeq(str, a + 1, z) = core

\* stdout matches: it is non-empty and, trimmed, is the expected output.
StdoutMatches(result, testCase) ==
  NonEmpty(result.stdout) /\ IsTrimOf(testCase.expectedOutput, Get(result.stdout))

\* The subtype the precedence order of the specification assigns.
ExpectedKind(result, testCase) ==
  IF StdoutMatches(result, testCase) THEN "passed"
  ELSE IF NonEmpty(result.stderr) THEN "runtime-error"
  ELSE IF NonEmpty(result.compile_output) THEN "compile-error"
  ELSE "wrong-answer"

\* The characters of str that are not whitespace, in order.
Squeeze(str) == SelectSeq(str, LAMBDA c : c \notin Whitespace)

\* C3: for every combination of stdout (absent, empty, matching, non-matching),
\* stderr (absent, empty, non-empty) and compile_output (absent, empty,
\* non-empty), both classifiers return passed if stdout matches, otherwise
\* runtime error if stderr is non-empty, otherwise compile error if
\* compile_output is non-empty, otherwise wrong answer.
C3_FirstMatchWins ==
  cls.applied =>
    /\ Kind(cls.app) = ExpectedKind(cls.result, cls.testCase)
    /\ Kind(cls.part) = ExpectedKind(cls.result, cls.testCase)

\* C3 witness: a non-matching stdout together with a non-empty stderr and a
\* non-empty compile_output was classified a runtime error.
C3_Witness ==
  /\ cls.applied
  /\ NonEmpty(cls.result.stdout)
  /\ ~StdoutMatches(cls.result, cls.testCase)
  /\ NonEmpty(cls.result.stderr)
  /\ NonEmpty(cls.result.compile_output)
  /\ Kind(cls.app) = "runtime-error"
  /\ Kind(cls.part) = "runtime-error"

\* C4: both classifiers return passed if and only if stdout is non-empty and
\* stdout without its leading and trailing whitespace is expectedOutput as it
\* stands (untrimmed); the actual of a passed result is that trimmed stdout;
\* and a stdout that differs from expectedOutput in internal whitespace only
\* is not passed: it is a wrong answer unless stderr or compile_output make
\* it an error (C3).
C4_PassedIffTrimmedEqual ==
  cls.applied =>
    \A r \in {cls.app, cls.part} :
      /\ (r.status = "passed") <=> StdoutMatches(cls.result, cls.testCase)
      /\ r.status = "passed" => r.actual = Some(cls.testCase.expectedOutput)
      /\ ( /\ NonEmpty(cls.result.stdout)
           /\ Squeeze(Get(cls.result.stdout)) = Squeeze(cls.testCase.expectedOutput)
           /\ ~StdoutMatches(cls.result, cls.testCase)
           /\ ~NonEmpty(cls.result.stderr)
           /\ ~NonEmpty(cls.result.compile_output) )
         => Kind(r) = "wrong-answer"

\* C4 witness: a stdout with whitespace on both sides of a one-character
\* expectedOutput was classified passed.
C4_Witness ==
  /\ cls.applied
  /\ Len(cls.testCase.expectedOutput) = 1
  /\ cls.result.stdout # None
  /\ Len(Get(cls.result.stdout)) = 3
  /\ Get(cls.result.stdout)[1] \in Whitespace
  /\ Get(cls.result.stdout)[3] \in Whitespace
  /\ cls.app.status = "passed"
  /\ cls.part.status = "passed"

\* A stdout that differs from expectedOutput only by an internal blank was
\* classified a wrong answer.
C4_InternalWhitespaceSeen ==
  /\ cls.applied
  /\ cls.testCase.expectedOutput = <<"4", "4">>
  /\ cls.result.stdout = Some(<<"4", " ", "4">>)
  /\ Kind(cls.app) = "wrong-answer"

\* An empty and an all-whitespace stdout against an empty expectedOutput.
C4_EmptyExpectedSeen ==
  /\ cls.applied
  /\ cls.testCase.expectedOutput = <<>>
  /\ cls.result.stdout = Some(<<" ">>)
  /\ cls.app.status = "passed"

\* ---------------------------------------------------- claims about runs
\* runCode has started a run; the latest one and the size of its suite.
Started == runs # <<>>
LastRun == runs[Len(runs)]
SuiteSize == Len(LastRun.cases)

\* The two published collections.
Published == {results, testResults}

\* The state is a snapshot the latest run published: its initial one or the
\* one of an iteration.
SnapshotPublished == Started /\ lastEvent \in {"run", "settle"}

\* The latest run has just executed its last statement.
RunEnded == SnapshotPublished /\ LastRun.pc = "done"

\* A submission failed: the call rejected, or it brought no response body
\* (the RawExecutionResponse is entirely absent).
SubmissionFailed(o) == o.rejected \/ o.data = None

\* Submissions issued and not yet settled.
RECURSIVE InFlight(_)
InFlight(rs) ==
  IF rs = <<>> THEN 0
  ELSE Len(Head(rs).requests) - Len(Head(rs).outcomes) + InFlight(Tail(rs))

\* C1: from the initial snapshot of a run until the next run starts, also
\* across problem and language changes, both published collections have
\* exactly as many entries as the suite of that run has test cases.
C1_LengthIsSuiteSize ==
  Started => \A col \in Published : Len(col) = SuiteSize

\* C2: in every snapshot a run publishes, and so at its completion, every
\* position 1..N of both collections holds a defined entry whose testNumber
\* is its position (so that no slot's testNumber changes during the run).
C2_SlotsDefinedAndNumbered ==
  SnapshotPublished =>
    \A col \in Published : \A k \in 1..SuiteSize :
      k <= Len(col) /\ col[k] # undefined /\ col[k].testNumber = k

\* C5: when a run has ended it has issued exactly N submissions, the k-th
\* carrying the input of the k-th test case, and in both collections slot k
\* is an API-error result if and only if the k-th submission failed, and
\* holds the classification of the k-th response otherwise.
C5_FailureDoesNotAbort ==
  RunEnded =>
    /\ Len(LastRun.requests) = SuiteSize
    /\ Len(LastRun.outcomes) = SuiteSize
    /\ \A k \in 1..SuiteSize : LastRun.requests[k].stdin = LastRun.cases[k].input
    /\ \A col \in Published : \A k \in 1..SuiteSize :
         /\ k <= Len(col)
         /\ col[k] # undefined
         /\ col[k].testNumber = k
         /\ Kind(col[k]) =
              IF SubmissionFailed(LastRun.outcomes[k]) THEN "api-error"
              ELSE ExpectedKind(Get(LastRun.outcomes[k].data), LastRun.cases[k])

\* C6: a click on Run when the current problem and language have no suite
\* issues no submission, leaves isRunning as it is (false) and leaves both
\* published collections unchanged.
C6_NoSuiteNoEffect ==
  [][(lastEvent' \in {"alert", "run"} /\ testSuiteOf(problemIdx, language) = None)
       => (~isRunning' /\ UNCHANGED <<results, testResults, isRunning, runs>>)]_vars

\* C6 witness: Run was clicked without a suite while the collections held
\* the results of a run that ended after the language was changed.
C6_Witness ==
  /\ lastEvent = "alert"
  /\ testSuiteOf(problemIdx, language) = None
  /\ ~isRunning
  /\ results # <<>>
  /\ testResults # <<>>
  /\ InFlight(runs) = 0

\* C7: at most one submission is in flight, and at most one invocation of
\* runCode is suspended, whatever the run clicks, problem changes and
\* language changes.
C7_OneSubmissionInFlight ==
  /\ InFlight(runs) <= 1
  /\ Len(Awaiting(runs)) <= 1
  /\ \A j \in 1..Len(runs) :
       Len(runs[j].requests) - Len(runs[j].outcomes)
         = IF runs[j].pc = "awaiting" THEN 1 ELSE 0

\* C7 witness: the second submission of a run is in flight after the
\* language was changed, and the Run button is disabled.
C7_Witness ==
  /\ Started
  /\ InFlight(runs) = 1
  /\ LastRun.i = 1
  /\ Len(LastRun.requests) = 2
  /\ LastRun.language # language
  /\ RunButtonDisabled

\* C8: in every snapshot a run publishes, both collections have N slots, the
\* first k of them resolved and the others running, where k is the number of
\* iterations done so far.
C8_ResolvedPrefix ==
  SnapshotPublished =>
    \A col \in Published :
      /\ Len(col) = SuiteSize
      /\ \A k \in 1..SuiteSize :
           /\ col[k] # undefined
           /\ IF k <= LastRun.i THEN IsResolved(col[k]) ELSE col[k].status = "running"

\* C9: in both collections a slot turns resolved only in the iteration of
\* its own index, and a slot that holds a resolved result holds the same
\* result after every step that does not start a run, problem and language
\* changes included.
C9_ResolvedOnceAndKept ==
  [][\A step \in {<<results, results'>>, <<testResults, testResults'>>} :
       LET before == step[1]
           after == step[2]
       IN /\ \A k \in 1..Len(after) :
               (IsResolved(after[k]) /\ ~(k <= Len(before) /\ IsResolved(before[k])))
                 => (lastEvent' = "settle" /\ LastRun'.i = k)
          /\ lastEvent' # "run" =>
               \A k \in 1..Len(before) :
                 IsResolved(before[k]) => (k <= Len(after) /\ after[k] = before[k])
    ]_vars

\* C10, the state a run ends in: isRunning is false and all N slots of both
\* collections are resolved.
C10_RunEndsAllResolved ==
  RunEnded =>
    /\ ~isRunning
    /\ \A col \in Published : \A k \in 1..SuiteSize :
         k <= Len(col) /\ IsResolved(col[k])

\* C10, termination alone: with every submission settling, a run that is
\* in flight ends.
RunTerminates == isRunning ~> ~isRunning

\* C11: an iteration whose submission rejects, or whose response has no
\* body so that classifying it throws, publishes an API-error result in its
\* own slot of both collections, and the loop goes on: either the submission
\* of the next test case is issued, or the run ends and isRunning is false.
C11_FailureIsCaught ==
  [][(lastEvent' = "settle" /\ runs' # runs
        /\ SubmissionFailed(LastRun'.outcomes[Len(LastRun'.outcomes)]))
       => LET k == LastRun'.i
              n == Len(LastRun'.cases)
          IN /\ k = LastRun.i + 1
             /\ \A col \in {results', testResults'} :
                  /\ k <= Len(col)
                  /\ Kind(col[k]) = "api-error"
                  /\ col[k].status = "failed"
                  /\ col[k].testNumber = k
             /\ Kind(LastRun'.newResults[k]) = "api-error"
             /\ Kind(LastRun'.partResults[k]) = "api-error"
             /\ IF k < n
                THEN /\ LastRun'.pc = "awaiting"
                     /\ isRunning'
                     /\ Len(LastRun'.requests) = k + 1
                     /\ LastRun'.requests[k + 1].stdin = LastRun'.cases[k + 1].input
                ELSE /\ LastRun'.pc = "done"
                     /\ ~isRunning'
     ]_vars

\* C11 witness: a run of two test cases has ended with isRunning false; its
\* first response had no body, its second submission rejected, and both slots
\* of both collections are API-error results.
C11_Witness ==
  /\ RunEnded
  /\ ~isRunning
  /\ SuiteSize = 2
  /\ LastRun.outcomes[1] = Resolved(None)
  /\ LastRun.outcomes[2].rejected
  /\ \A col \in Published :
       Len(col) = 2 /\ Kind(col[1]) = "api-error" /\ Kind(col[2]) = "api-error"

\* No invocation of runCode is suspended and the latest run has ended.
RunCompleted == Started /\ LastRun.pc = "done" /\ Awaiting(runs) = <<>>

C13_ProgramFixedAtRunStart ==
  [][IF lastEvent' = "run" /\ Len(runs') > Len(Awaiting(runs))
     THEN LET suite == Get(testSuiteOf(problemIdx, language))
              fullCode == code \o <<"\n">> \o suite.testCode
          IN /\ testSuiteOf(problemIdx, language) # None
             /\ LastRun'.cases = suite.testCases
             /\ LastRun'.fullCode = fullCode
             /\ LastRun'.language = language
             /\ LastRun'.requests =
                  IF suite.testCases = <<>> THEN <<>>
                  ELSE <<[language_id |-> LANGUAGE_IDS[language],
                          source_code |-> fullCode,
                          stdin |-> suite.testCases[1].input]>>
     ELSE /\ Len(runs') = Len(runs)
          /\ \A j \in 1..Len(runs) :
               LET r == runs[j]
                   k == Len(r.requests) + 1
               IN /\ runs'[j].cases = r.cases
                  /\ runs'[j].fullCode = r.fullCode
                  /\ runs'[j].language = r.language
                  /\ \/ runs'[j].requests = r.requests
                     \/ /\ k <= Len(r.cases)
                        /\ runs'[j].requests =
                             Append(r.requests,
                                    [language_id |-> LANGUAGE_IDS[r.language],
                                     source_code |-> r.fullCode,
                                     stdin |-> r.cases[k].input])
    ]_vars

\* C13 witness: a run has sent both its submissions although, after its
\* first one, the code was edited and the problem and the language changed.
C13_Witness ==
  /\ Started
  /\ Len(LastRun.requests) = 2
  /\ LastRun.language # language
  /\ LastRun.cases # <<>>
  /\ testSuiteOf(problemIdx, language) = None
  /\ LastRun.fullCode[1] # code[1]
  /\ LastRun.requests[2].source_code = LastRun.requests[1].source_code
  /\ LastRun.requests[2].language_id = LastRun.requests[1].language_id

\* C14: the first snapshot a run publishes has exactly N entries, all
\* running and numbered by position, in both collections; and in every
\* snapshot of the run a resolved entry is the result this run computed for
\* that slot, so none is left over from what was published before the click.
C14_StartDiscardsPrevious ==
  SnapshotPublished =>
    /\ lastEvent = "run" =>
         \A col \in Published :
           /\ Len(col) = SuiteSize
           /\ \A k \in 1..Len(col) : Kind(col[k]) = "running" /\ col[k].testNumber = k
    /\ \A k \in 1..Len(results) :
         IsResolved(results[k]) => k <= LastRun.i /\ results[k] = LastRun.newResults[k]
    /\ \A k \in 1..Len(testResults) :
         IsResolved(testResults[k]) =>
           k <= LastRun.i /\ testResults[k] = LastRun.partResults[k]

\* C14 witness: a run of two test cases has just published its initial
\* snapshot.
C14_Witness ==
  /\ SnapshotPublished
  /\ lastEvent = "run"
  /\ SuiteSize = 2
  /\ LastRun.i = 0
  /\ \A col \in Published :
       Len(col) = 2 /\ Kind(col[1]) = "running" /\ Kind(col[2]) = "running"

\* The fields the specification gives a resolved result r of subtype
\* Kind(r), computed for test case tc from the outcome o of its submission.
FieldsOfSubtype(r, o, tc) ==
  LET bare == r.input = None /\ r.expected = None /\ r.actual = None
      filled == /\ r.input = Some(tc.input)
                /\ r.expected = Some(tc.expectedOutput)
                /\ r.actual # None
                /\ r.error = None
      body == Get(o.data)
  IN CASE Kind(r) = "api-error" ->
            /\ SubmissionFailed(o)
            /\ NonEmpty(r.error)
            /\ r.error = (IF o.rejected THEN o.message ELSE Some(NullBodyError))
            /\ bare
       [] Kind(r) = "runtime-error" ->
            ~SubmissionFailed(o) /\ NonEmpty(r.error) /\ r.error = body.stderr /\ bare
       [] Kind(r) = "compile-error" ->
            ~SubmissionFailed(o) /\ NonEmpty(r.error) /\ r.error = body.compile_output /\ bare
       [] Kind(r) = "passed" ->
            /\ ~SubmissionFailed(o)
            /\ filled
            /\ body.stdout # None
            /\ IsTrimOf(Get(r.actual), Get(body.stdout))
       [] Kind(r) = "wrong-answer" ->
            /\ ~SubmissionFailed(o)
            /\ filled
            /\ IF NonEmpty(body.stdout)
               THEN IsTrimOf(Get(r.actual), Get(body.stdout))
               ELSE Get(r.actual) = NoOutput
       [] OTHER -> FALSE

\* C15: every resolved entry of both published collections carries the
\* fields of its subtype: an API-error, runtime-error or compile-error result
\* a non-empty error (the failure's message, stderr, compile_output) and no
\* input, expected or actual; a passed result input, expected, actual =
\* trimmed stdout and no error; a wrong-answer result input, expected, actual
\* = trimmed stdout if stdout is non-empty and 'No output' otherwise, and no
\* error.
C15_FieldsFollowSubtype ==
  \A col \in Published : \A k \in 1..Len(col) :
    IsResolved(col[k]) =>
      /\ Started
      /\ k <= Len(LastRun.outcomes)
      /\ FieldsOfSubtype(col[k], LastRun.outcomes[k], LastRun.cases[k])

\* C15 witness: a run has ended with a passed result whose actual is a proper
\* trim of stdout in slot 1 and an API-error result in slot 2.
C15_Witness ==
  /\ RunEnded
  /\ SuiteSize = 2
  /\ \A col \in Published :
       /\ Len(col) = 2
       /\ Kind(col[1]) = "passed"
       /\ col[1].actual # Get(LastRun.outcomes[1].data).stdout
       /\ col[1].error = None
       /\ Kind(col[2]) = "api-error"
       /\ col[2].error = LastRun.outcomes[2].message
       /\ col[2].actual = None

\* C16: whenever an entry of either published collection has status running,
\* isRunning is true; so while the Run button is enabled no entry is running.
C16_RunningEntryImpliesIsRunning ==
  \A col \in Published :
    (\E k \in 1..Len(col) : Kind(col[k]) = "running") => isRunning

\* C16 witness: the first of two submissions has settled; slot 1 is resolved
\* and slot 2 is still running in both collections.
C16_Witness ==
  /\ SnapshotPublished
  /\ lastEvent = "settle"
  /\ isRunning
  /\ LastRun.i = 1
  /\ \A col \in Published :
       Len(col) = 2 /\ IsResolved(col[1]) /\ Kind(col[2]) = "running"

\* Two snapshots have the same length and, in every slot, defined entries of
\* the same status and testNumber.
Agree(a, b) ==
  /\ Len(a) = Len(b)
  /\ \A k \in 1..Len(a) :
       /\ a[k] # undefined
       /\ b[k] # undefined
       /\ a[k].status = b[k].status
       /\ a[k].testNumber = b[k].testNumber

\* C17: both versions publish one snapshot when a run starts and one per
\* iteration; as long as no problem or language change was made during the
\* run, the snapshot rebuilt from the local list (App.tsx) and the one made
\* by overwriting index i of the previous state (part_000) have N slots with
\* the same status and testNumber in every slot.
C17_VersionsAgree ==
  (SnapshotPublished /\ ~LastRun.changed) =>
    /\ Len(results) = SuiteSize
    /\ Agree(results, testResults)

\* C17 witness: a run of two test cases has ended without a change during
\* it, its first submission having failed and its second passed, and the two
\* final snapshots agree.
C17_Witness ==
  /\ RunEnded
  /\ ~LastRun.changed
  /\ SuiteSize = 2
  /\ SubmissionFailed(LastRun.outcomes[1])
  /\ Kind(results[1]) = "api-error"
  /\ Kind(testResults[1]) = "api-error"
  /\ Kind(results[2]) = "passed"
  /\ Kind(testResults[2]) = "passed"

=============================================================================
